---------------------------- MODULE Spec2Model ----------------------------
(***************************************************************************)
(* SHARCSynth: MIDI decoder (ARM core), polyphonic synth voice bank (SHARC *)
(* core 1) and filter + delay chain (SHARC core 2), coupled through the    *)
(* multicore shared-memory block (multicore_data).                         *)
(*                                                                         *)
(* Two builds of midi_rx_callback_arm exist in the sources:                *)
(*   "part_000" : src/unnamed/part_000 (file-static decoder state, writes  *)
(*                midi_note[n].velocity and midi_cc_values[channel])       *)
(*   "core0"    : src/Synth_core0/src/callback_midi_message.cpp (decoder   *)
(*                state local to one callback invocation, writes           *)
(*                midi_note_velocities[n] and midi_cc_values[controller])  *)
(* A behaviour follows one build (variable decoder).  The two SHARC cores  *)
(* share no state with each other, so a behaviour follows one of them      *)
(* (variable scope): "synth" = core 1, "fx" = core 2.                      *)
(*                                                                         *)
(* The decoder runs on another core than the background passes, so a pass  *)
(* is modelled one shared-memory access at a time.                         *)
(***************************************************************************)
EXTENDS Integers, Sequences, FiniteSets, TLC

(* ----------------------------- bounds --------------------------------- *)
\* voices in the bank (synth_voices[16] in the source, scaled down)
NumVoices == 2
\* note numbers 0..MaxNote are modelled (midi_note[128] in the source)
MaxNote == 1
\* velocities 0..MaxVel are sent (0..127 in the source)
MaxVel == 2
\* controller values 0..MaxCC are sent (0..127 in the source)
MaxCC == 1
\* MIDI channels 0..MaxChannel carry the note messages (0..15 in the source)
MaxChannel == 1
\* data bytes the byte-level stream sends after one status byte before it
\* sends the next status byte
MaxDataBytes == 3
\* samples in one audio block (AUDIO_BLOCK_SIZE in the source)
BlockSize == 2
\* changes of one polled slot the decoder may run ahead of the pass
MaxPending == 2
\* input levels 0..MaxLevel of the blocks core 2 receives
MaxLevel == 1

(* ------------------------- program constants -------------------------- *)
STATUS_BIT == 128
NOTE_OFF == 128
NOTE_ON == 144
CONTROL_CHANGE == 176
\* a status byte the decoders have no case for (pitch bend): the default case
PITCH_BEND == 224
\* the controller number part_000 filters on
CC_FILTERED == 74
\* the slots of midi_cc_values the core 2 background pass polls
CC_FEEDBACK == 4
CC_LENGTH == 5
CC_FREQ == 6
\* AUDIO_SAMPLE_RATE of common/audio_system_config.h
AUDIO_SAMPLE_RATE == 48000
\* gain_buffer(.., 0.25, ..): the gain as GAIN_NUM / GAIN_DEN
GAIN_NUM == 1
GAIN_DEN == 4
\* delay_setup(.., 0.8, ..): the feedthrough as FEEDTHROUGH_NUM / FEEDTHROUGH_DEN
FEEDTHROUGH_NUM == 4
FEEDTHROUGH_DEN == 5

Notes == 0..MaxNote
Velocities == 0..MaxVel
Voices == 0..(NumVoices - 1)
CCValues == 0..MaxCC
PolledCC == {CC_FEEDBACK, CC_LENGTH, CC_FREQ}
\* the slots of midi_cc_values that are modelled
CCSlots == PolledCC \cup {CC_FILTERED}

Min(a, b) == IF a <= b THEN a ELSE b

VARIABLES
  scope,                    \* "decoder" (ARM core alone), "synth" (with the
                            \* background pass of SHARC core 1), "mix" (with
                            \* SHARC core 1, pass by pass), "fx" (with
                            \* SHARC core 2) or "stream" (ARM core alone,
                            \* unbounded messages)
  decoder,                  \* "part_000" or "core0": the build of midi_rx_callback_arm
  \* --- src/unnamed/part_000: file-static decoder state
  midi_status, midi_channel, midi_note_num, midi_byte_num,
  \* --- Synth_core0: locals of one invocation of midi_rx_callback_arm
  status, channel, note_num, command_num,
  \* --- multicore_data (the shared-memory bridge)
  midi_note_velocity,       \* midi_note[i].velocity          (part_000, core 1)
  midi_note_velocity_prev,  \* midi_note[i].velocity_prev     (core 1)
  midi_note_velocities,     \* midi_note_velocities[i]        (core0 build)
  midi_cc_values,           \* midi_cc_values[i]              (both builds, core 2)
  midi_cc_values_prev,      \* midi_cc_values_prev[i]         (core 2)
  \* --- SHARC core 1
  synth_voices,             \* SIMPLE_SYNTH synth_voices[16]
  bg1_pc, bg1_i,            \* position of processaudio_background_loop
  indx,                     \* the voice-scan index when the scan loop exits
  audiochannel_0_left_out,  \* output buffers of core 1, in units of 1/128
  audiochannel_0_right_out,
  temp_audio_accum,         \* the accumulator of the last processaudio_callback
  \* --- SHARC core 2
  audio_delay,              \* DELAY_LPF audio_delay
  lp_filter,                \* BIQUAD_FILTER lp_filter
  bg2_pc, bg2_slot,         \* position of processaudio_background_loop
  val,                      \* its local: char val
  cb2_pc,                   \* position of processaudio_callback: "idle" or "run"
  audiochannel_in,          \* input buffers audiochannel_<c>_in of core 2
  audiochannel_out,         \* output buffers audiochannel_<c>_out, channels 1..3
  audio_temp, audio_temp2,  \* scratch buffers of the last processaudio_callback
  \* --- observation
  core_op,                  \* the last operation of the SHARC core that acted
  fed,                      \* bytes fed since (and including) the last status byte
                            \* in the current invocation of the decoder
  sent,                     \* bytes sent since (and including) the last status
                            \* byte, whatever invocations read them
  pending                   \* per polled slot: changes the decoder made minus
                            \* changes the pass forwarded (SpecPoll only)
  ,
  polled,                   \* consecutive pass iterations that began and ended
                            \* since the decoder last ran, at most a pass's
                            \* worth (SpecSettle only)
  fresh                     \* the pass iteration in progress began after the
                            \* decoder last ran (SpecSettle only)

\* the slots a background pass polls: note numbers on core 1, controller
\* slots on core 2 (the two index ranges do not overlap in the model)
PolledSlots == Notes \cup PolledCC
\* the current and the previous value of a polled slot
PolledValue(s) == IF s \in Notes THEN midi_note_velocity[s] ELSE midi_cc_values[s]
PolledPrev(s) ==
  IF s \in Notes THEN midi_note_velocity_prev[s] ELSE midi_cc_values_prev[s]

part000Vars == <<midi_status, midi_channel, midi_note_num, midi_byte_num>>
core0Vars == <<status, channel, note_num, command_num>>
bridgeVars == <<midi_note_velocity, midi_note_velocity_prev, midi_note_velocities,
                midi_cc_values, midi_cc_values_prev>>
core1Vars == <<synth_voices, bg1_pc, bg1_i, indx>>
audioVars == <<audiochannel_0_left_out, audiochannel_0_right_out, temp_audio_accum>>
core2Vars == <<audio_delay, lp_filter, bg2_pc, bg2_slot, val>>
cb2Vars == <<cb2_pc, audiochannel_in, audiochannel_out, audio_temp, audio_temp2>>
vars == <<scope, decoder, part000Vars, core0Vars, bridgeVars, core1Vars,
          audioVars, core2Vars, cb2Vars, core_op, fed, sent, pending,
          polled, fresh>>

(* ------------------------- byte arithmetic ---------------------------- *)
\* (val & 0x80) == 0x80
IsStatusByte(byte) == byte >= STATUS_BIT
\* val & 0x0F
LowNibble(byte) == byte % 16
\* val & 0xF0
HighNibble(byte) == byte - (byte % 16)
\* uint8_t increment
IncU8(x) == (x + 1) % 256

(* ------------------- MIDI decoder, src/unnamed/part_000 ---------------- *)
\* One iteration of the while loop: the byte read from the UART FIFO.
\* d is the static state, vel is midi_note[.].velocity, cc is midi_cc_values.
Part000_Status(d, vel, cc, byte) ==
  [d |-> [midi_status |-> HighNibble(byte), midi_channel |-> LowNibble(byte),
          midi_note_num |-> 0, midi_byte_num |-> 0],
   vel |-> vel, cc |-> cc]

\* a note-off that zeroes the stored note number's velocity, not the velocity
\* of the note the data byte names
Part000_NoteOff_Stored(d, vel, cc, byte) ==
  [d |-> d,
   vel |-> IF d.midi_byte_num = 0 THEN [vel EXCEPT ![d.midi_note_num] = 0] ELSE vel,
   cc |-> cc]

Part000_NoteOff(d, vel, cc, byte) ==
  [d |-> d,
   vel |-> IF d.midi_byte_num = 0 THEN [vel EXCEPT ![byte] = 0] ELSE vel,
   cc |-> cc]

Part000_NoteOn(d, vel, cc, byte) ==
  [d |-> IF d.midi_byte_num = 0 THEN [d EXCEPT !.midi_note_num = byte] ELSE d,
   vel |-> IF d.midi_byte_num = 1
           THEN [vel EXCEPT ![d.midi_note_num] = byte] ELSE vel,
   cc |-> cc]

Part000_CC(d, vel, cc, byte) ==
  [d |-> IF d.midi_byte_num = 0 THEN [d EXCEPT !.midi_note_num = byte] ELSE d,
   vel |-> vel,
   cc |-> IF d.midi_byte_num = 1 /\ d.midi_note_num = CC_FILTERED
          THEN [cc EXCEPT ![d.midi_channel] = byte] ELSE cc]

\* a switch whose default case falls into the note-on case
Part000_Data_DefaultNoteOn(d, vel, cc, byte) ==
  LET r == CASE d.midi_status = NOTE_OFF -> Part000_NoteOff(d, vel, cc, byte)
             [] d.midi_status = CONTROL_CHANGE -> Part000_CC(d, vel, cc, byte)
             [] OTHER -> Part000_NoteOn(d, vel, cc, byte)
  IN [r EXCEPT !.d.midi_byte_num = IncU8(@)]

Part000_Data(d, vel, cc, byte) ==
  LET r == CASE d.midi_status = NOTE_OFF -> Part000_NoteOff(d, vel, cc, byte)
             [] d.midi_status = NOTE_ON -> Part000_NoteOn(d, vel, cc, byte)
             [] d.midi_status = CONTROL_CHANGE -> Part000_CC(d, vel, cc, byte)
             [] OTHER -> [d |-> d, vel |-> vel, cc |-> cc]
  IN [r EXCEPT !.d.midi_byte_num = IncU8(@)]

Part000_Decode(d, vel, cc, byte) ==
  IF IsStatusByte(byte) THEN Part000_Status(d, vel, cc, byte)
  ELSE Part000_Data(d, vel, cc, byte)

\* the while loop over the bytes available in the FIFO
RECURSIVE Part000_DecodeAll(_, _, _, _)
Part000_DecodeAll(d, vel, cc, bytes) ==
  IF bytes = <<>> THEN [d |-> d, vel |-> vel, cc |-> cc]
  ELSE LET r == Part000_Decode(d, vel, cc, Head(bytes))
       IN Part000_DecodeAll(r.d, r.vel, r.cc, Tail(bytes))

(* --------- MIDI decoder, Synth_core0/src/callback_midi_message.cpp ------ *)
\* d is the locals of the invocation, vel is midi_note_velocities
\* a status byte that leaves the byte-position counter alone
Core0_Status_KeepsCount(d, vel, cc, byte) ==
  [d |-> [d EXCEPT !.status = HighNibble(byte), !.channel = LowNibble(byte)],
   vel |-> vel, cc |-> cc]

Core0_Status(d, vel, cc, byte) ==
  [d |-> [d EXCEPT !.status = HighNibble(byte), !.channel = LowNibble(byte),
                   !.command_num = 0],
   vel |-> vel, cc |-> cc]

Core0_NoteOff(d, vel, cc, byte) ==
  [d |-> d,
   vel |-> IF d.command_num = 0 THEN [vel EXCEPT ![byte] = 0] ELSE vel,
   cc |-> cc]

Core0_NoteOn(d, vel, cc, byte) ==
  [d |-> IF d.command_num = 0 THEN [d EXCEPT !.note_num = byte] ELSE d,
   vel |-> IF d.command_num = 1 THEN [vel EXCEPT ![d.note_num] = byte] ELSE vel,
   cc |-> cc]

Core0_CC(d, vel, cc, byte) ==
  [d |-> IF d.command_num = 0 THEN [d EXCEPT !.note_num = byte] ELSE d,
   vel |-> vel,
   cc |-> IF d.command_num = 1 THEN [cc EXCEPT ![d.note_num] = byte] ELSE cc]

Core0_Data(d, vel, cc, byte) ==
  LET r == CASE d.status = NOTE_OFF -> Core0_NoteOff(d, vel, cc, byte)
             [] d.status = NOTE_ON -> Core0_NoteOn(d, vel, cc, byte)
             [] d.status = CONTROL_CHANGE -> Core0_CC(d, vel, cc, byte)
             [] OTHER -> [d |-> d, vel |-> vel, cc |-> cc]
  IN [r EXCEPT !.d.command_num = IncU8(@)]

Core0_Decode(d, vel, cc, byte) ==
  IF IsStatusByte(byte) THEN Core0_Status(d, vel, cc, byte)
  ELSE Core0_Data(d, vel, cc, byte)

RECURSIVE Core0_DecodeAll(_, _, _, _)
Core0_DecodeAll(d, vel, cc, bytes) ==
  IF bytes = <<>> THEN [d |-> d, vel |-> vel, cc |-> cc]
  ELSE LET r == Core0_Decode(d, vel, cc, Head(bytes))
       IN Core0_DecodeAll(r.d, r.vel, r.cc, Tail(bytes))

\* the locals at the start of an invocation (lines 55-58)
Core0_Locals == [status |-> 0, channel |-> 0, note_num |-> 0, command_num |-> 0]

(* ----------------------- the byte stream (UART) ------------------------ *)
\* what the observer records of the byte stream: the bytes since the last
\* status byte, status byte first; more than three bytes are not kept
FedAfter(f, byte) ==
  IF IsStatusByte(byte) THEN <<byte>>
  ELSE IF Len(f) \in 1..2 THEN Append(f, byte)
  ELSE <<>>

\* status bytes the byte-level stream sends
StatusBytes ==
  {st + ch : st \in {NOTE_OFF, NOTE_ON, PITCH_BEND}, ch \in 0..MaxChannel}
  \cup {CONTROL_CHANGE + ch : ch \in PolledCC}

\* data bytes the byte-level stream sends, by the use the decoder will make
\* of the byte: st is the decoder's command, n its position counter
DataUse(st, n) ==
  CASE st = NOTE_OFF /\ n = 0 -> Notes
    [] st = NOTE_ON /\ n = 0 -> Notes
    [] st = NOTE_ON /\ n = 1 -> Velocities
    [] st = CONTROL_CHANGE /\ n = 0 -> CCSlots
    [] st = CONTROL_CHANGE /\ n = 1 -> CCValues
    [] OTHER -> 0..Min(MaxNote, MaxCC)
\* the byte-level stream sends at most MaxDataBytes data bytes per status byte
DataBytes(st, n) == IF n >= MaxDataBytes THEN {} ELSE DataUse(st, n)

\* complete messages, as sent to the cores' scopes
NoteMessages ==
  {<<NOTE_ON, n, v>> : n \in Notes, v \in Velocities}
  \cup {<<NOTE_OFF, n, 0>> : n \in Notes}
CCMessages ==
  {<<CONTROL_CHANGE + ch, c, v>> : ch \in PolledCC, c \in CCSlots, v \in CCValues}
Messages == IF scope = "fx" THEN CCMessages ELSE NoteMessages

Part000_State ==
  [midi_status |-> midi_status, midi_channel |-> midi_channel,
   midi_note_num |-> midi_note_num, midi_byte_num |-> midi_byte_num]
Core0_State ==
  [status |-> status, channel |-> channel, note_num |-> note_num,
   command_num |-> command_num]

\* a decoder that also zeroes the previous velocity of every note whose
\* velocity it leaves at 0
Part000_Set_ZeroesPrev(r) ==
  /\ midi_status' = r.d.midi_status
  /\ midi_channel' = r.d.midi_channel
  /\ midi_note_num' = r.d.midi_note_num
  /\ midi_byte_num' = r.d.midi_byte_num
  /\ midi_note_velocity' = r.vel
  /\ midi_cc_values' = r.cc
  /\ midi_note_velocity_prev' =
       [n \in Notes |-> IF r.vel[n] = 0 THEN 0 ELSE midi_note_velocity_prev[n]]
  /\ UNCHANGED <<scope, decoder, core0Vars, midi_note_velocities,
                 midi_cc_values_prev, core1Vars,
                 audioVars, core2Vars, cb2Vars, core_op>>

Part000_Set(r) ==
  /\ midi_status' = r.d.midi_status
  /\ midi_channel' = r.d.midi_channel
  /\ midi_note_num' = r.d.midi_note_num
  /\ midi_byte_num' = r.d.midi_byte_num
  /\ midi_note_velocity' = r.vel
  /\ midi_cc_values' = r.cc
  /\ UNCHANGED <<scope, decoder, core0Vars, midi_note_velocities,
                 midi_note_velocity_prev, midi_cc_values_prev, core1Vars,
                 audioVars, core2Vars, cb2Vars, core_op>>

Core0_Set(r) ==
  /\ status' = r.d.status
  /\ channel' = r.d.channel
  /\ note_num' = r.d.note_num
  /\ command_num' = r.d.command_num
  /\ midi_note_velocities' = r.vel
  /\ midi_cc_values' = r.cc
  /\ UNCHANGED <<scope, decoder, part000Vars, midi_note_velocity,
                 midi_note_velocity_prev, midi_cc_values_prev, core1Vars,
                 audioVars, core2Vars, cb2Vars, core_op>>

\* midi_rx_callback_arm (part_000) reads one byte
Part000_RxByte ==
  /\ scope = "decoder" /\ decoder = "part_000"
  /\ \E byte \in StatusBytes \cup DataBytes(midi_status, midi_byte_num) :
       /\ Part000_Set(Part000_Decode(Part000_State, midi_note_velocity,
                                     midi_cc_values, byte))
       /\ fed' = FedAfter(fed, byte)
       /\ sent' = FedAfter(sent, byte)

\* midi_rx_callback_arm (part_000) reads one byte of a stream of note
\* messages on channel 0 that may send any number of data bytes after a
\* status byte
Part000_RxStream ==
  /\ scope = "stream" /\ decoder = "part_000"
  /\ \E byte \in {NOTE_OFF, NOTE_ON} \cup DataUse(midi_status, midi_byte_num) :
       /\ Part000_Set(Part000_Decode(Part000_State, midi_note_velocity,
                                     midi_cc_values, byte))
       /\ fed' = FedAfter(fed, byte)
       /\ sent' = FedAfter(sent, byte)

\* midi_rx_callback_arm (core0) reads one byte in the current invocation
Core0_RxByte ==
  /\ scope = "decoder" /\ decoder = "core0"
  /\ \E byte \in StatusBytes \cup DataBytes(status, command_num) :
       /\ Core0_Set(Core0_Decode(Core0_State, midi_note_velocities,
                                 midi_cc_values, byte))
       /\ fed' = FedAfter(fed, byte)
       /\ sent' = FedAfter(sent, byte)

\* uart_available() is false and the callback returns: the next invocation
\* starts with fresh locals
Core0_Return ==
  /\ scope = "decoder" /\ decoder = "core0"
  /\ Core0_Set([d |-> Core0_Locals, vel |-> midi_note_velocities,
                cc |-> midi_cc_values])
  /\ fed' = <<>>
  /\ UNCHANGED sent

\* one invocation of midi_rx_callback_arm (part_000) that finds a complete
\* message in the FIFO
Part000_RxMessage ==
  /\ scope # "decoder" /\ decoder = "part_000"
  /\ \E msg \in Messages :
       Part000_Set(Part000_DecodeAll(Part000_State, midi_note_velocity,
                                     midi_cc_values, msg))
  /\ UNCHANGED <<fed, sent>>

\* one invocation of midi_rx_callback_arm (core0) that finds a complete
\* message in the FIFO; its locals end with the invocation
Core0_RxMessage ==
  /\ scope # "decoder" /\ decoder = "core0"
  /\ \E msg \in Messages :
       LET r == Core0_DecodeAll(Core0_Locals, midi_note_velocities,
                                midi_cc_values, msg)
       IN Core0_Set([r EXCEPT !.d = Core0_Locals])
  /\ UNCHANGED <<fed, sent>>

(* ------------------ SIMPLE_SYNTH voice (simple_synth.h) ---------------- *)
\* a voice after synth_setup
SetupVoice == [playing |-> FALSE, note |-> 0, amplitude |-> 0]

\* synth_play_note(&voice, note, amplitude); the amplitude is kept as its
\* numerator over 128 (velocity * (1.0/128.0))
synth_play_note(v, note, velocity) ==
  [playing |-> TRUE, note |-> note, amplitude |-> velocity]

\* synth_stop_note(&voice)
synth_stop_note(v) == [v EXCEPT !.playing = FALSE]

(* ------- SHARC core 1: processaudio_background_loop, voice scans ------- *)
\* the voices sounding note n
Sounding(voices, n) == {k \in Voices : voices[k].playing /\ voices[k].note = n}
\* the voices free for a note-on
FreeVoices(voices) == {k \in Voices : ~voices[k].playing}
Lowest(S) == CHOOSE k \in S : \A j \in S : k <= j

\* a note-off scan that forgets the note comparison: it stops the first
\* playing voice whatever its note
NoteOffScan_AnyNote(voices, i, k, found) ==
  LET on == Voices \ FreeVoices(voices)
  IN IF on = {}
     THEN [voices |-> voices, indx |-> NumVoices, found |-> FALSE]
     ELSE [voices |-> [voices EXCEPT ![Lowest(on)] = synth_stop_note(@)],
           indx |-> Lowest(on) + 1, found |-> TRUE]

\* a note-on scan whose loop does not stop at the first free voice: it
\* starts the note on every free voice
NoteOnScan_EveryFree(voices, i, velocity, k, found) ==
  [voices |-> [j \in Voices |->
                 IF voices[j].playing THEN voices[j]
                 ELSE synth_play_note(voices[j], i, velocity)],
   indx |-> NumVoices, found |-> FreeVoices(voices) # {}]

\* a note-on scan that steals voice 0 when no voice is free
NoteOnScan_Steal(voices, i, velocity, k, found) ==
  LET free == FreeVoices(voices)
      tgt == IF free = {} THEN 0 ELSE Lowest(free)
  IN [voices |-> [voices EXCEPT ![tgt] = synth_play_note(@, i, velocity)],
      indx |-> IF free = {} THEN NumVoices ELSE tgt + 1, found |-> TRUE]

\* the note-off do-while loop, entered with indx = 0, found = false;
\* yields the voice bank and the value of indx when the loop exits
RECURSIVE NoteOffScan(_, _, _, _)
NoteOffScan(voices, i, k, found) ==
  LET hit == voices[k].playing /\ voices[k].note = i
      after == IF hit THEN [voices EXCEPT ![k] = synth_stop_note(@)] ELSE voices
      found2 == found \/ hit
  IN IF ~found2 /\ k + 1 < NumVoices
     THEN NoteOffScan(after, i, k + 1, found2)
     ELSE [voices |-> after, indx |-> k + 1, found |-> found2]

\* the note-on do-while loop; velocity is midi_note[i].velocity as read by
\* the call of synth_play_note
RECURSIVE NoteOnScan(_, _, _, _, _)
NoteOnScan(voices, i, velocity, k, found) ==
  LET hit == ~voices[k].playing
      after == IF hit
               THEN [voices EXCEPT ![k] = synth_play_note(@, i, velocity)]
               ELSE voices
      found2 == found \/ hit
  IN IF ~found2 /\ k + 1 < NumVoices
     THEN NoteOnScan(after, i, velocity, k + 1, found2)
     ELSE [voices |-> after, indx |-> k + 1, found |-> found2]

\* the for loop moves to the next note; after the last note the pass returns
\* and the framework calls it again
BgNextNote ==
  /\ bg1_i' = IF bg1_i + 1 > MaxNote THEN 0 ELSE bg1_i + 1
  /\ bg1_pc' = "cmp"

core1Frame == <<scope, decoder, part000Vars, core0Vars, midi_note_velocity,
                midi_note_velocities, midi_cc_values, midi_cc_values_prev, fed,
                sent, audioVars, core2Vars, cb2Vars>>

\* line 286: velocity != velocity_prev
Bg1_Compare ==
  /\ scope = "synth" /\ bg1_pc = "cmp"
  /\ IF midi_note_velocity[bg1_i] # midi_note_velocity_prev[bg1_i]
     THEN /\ bg1_pc' = "store"
          /\ bg1_i' = bg1_i
          /\ core_op' = "detect"
     ELSE /\ BgNextNote
          /\ core_op' = "skip"
  /\ indx' = 0
  /\ UNCHANGED <<core1Frame, midi_note_velocity_prev, synth_voices>>

\* an iteration that forgets to record the velocity it has detected
Bg1_Store_Forgets ==
  /\ scope = "synth" /\ bg1_pc = "store"
  /\ bg1_pc' = "branch"
  /\ core_op' = "store"
  /\ UNCHANGED <<core1Frame, midi_note_velocity_prev, synth_voices, bg1_i, indx>>

\* an iteration that records the velocity only when it is not 0
Bg1_Store_NonZero ==
  /\ scope = "synth" /\ bg1_pc = "store"
  /\ midi_note_velocity_prev' =
       IF midi_note_velocity[bg1_i] = 0 THEN midi_note_velocity_prev
       ELSE [midi_note_velocity_prev EXCEPT ![bg1_i] = midi_note_velocity[bg1_i]]
  /\ bg1_pc' = "branch"
  /\ core_op' = "store"
  /\ UNCHANGED <<core1Frame, synth_voices, bg1_i, indx>>

\* line 288: velocity_prev = velocity
Bg1_Store ==
  /\ scope = "synth" /\ bg1_pc = "store"
  /\ midi_note_velocity_prev' =
       [midi_note_velocity_prev EXCEPT ![bg1_i] = midi_note_velocity[bg1_i]]
  /\ bg1_pc' = "branch"
  /\ core_op' = "store"
  /\ UNCHANGED <<core1Frame, synth_voices, bg1_i, indx>>

\* lines 289-300: velocity == 0, the note-off scan
Bg1_NoteOff ==
  /\ scope = "synth" /\ bg1_pc = "branch"
  /\ midi_note_velocity[bg1_i] = 0
  /\ LET r == NoteOffScan(synth_voices, bg1_i, 0, FALSE)
     IN /\ synth_voices' = r.voices
        /\ indx' = r.indx
  /\ BgNextNote
  /\ core_op' = "note_off"
  /\ UNCHANGED <<core1Frame, midi_note_velocity_prev>>

\* lines 289, 301: velocity != 0, the else branch is entered
Bg1_Branch ==
  /\ scope = "synth" /\ bg1_pc = "branch"
  /\ midi_note_velocity[bg1_i] # 0
  /\ bg1_pc' = "play"
  /\ core_op' = "branch"
  /\ UNCHANGED <<core1Frame, midi_note_velocity_prev, synth_voices, bg1_i, indx>>

\* lines 303-311: the note-on scan; velocity is read again at line 307
Bg1_NoteOn ==
  /\ scope = "synth" /\ bg1_pc = "play"
  /\ LET r == NoteOnScan(synth_voices, bg1_i, midi_note_velocity[bg1_i], 0, FALSE)
     IN /\ synth_voices' = r.voices
        /\ indx' = r.indx
        /\ core_op' = IF r.found THEN "note_on" ELSE "note_on_dropped"
  /\ BgNextNote
  /\ UNCHANGED <<core1Frame, midi_note_velocity_prev>>

(* ----- SHARC core 1: processaudio_background_loop, one whole pass ----- *)
\* the body of the for loop for note i, run without interruption: vel is
\* midi_note[.].velocity, prev is midi_note[.].velocity_prev
Bg1_Iteration(vel, prev, voices, i) ==
  IF vel[i] # prev[i]
  THEN [prev |-> [prev EXCEPT ![i] = vel[i]],
        voices |-> IF vel[i] = 0
                   THEN NoteOffScan(voices, i, 0, FALSE).voices
                   ELSE NoteOnScan(voices, i, vel[i], 0, FALSE).voices]
  ELSE [prev |-> prev, voices |-> voices]

\* the for loop from note i on
RECURSIVE Bg1_Loop(_, _, _, _)
Bg1_Loop(vel, prev, voices, i) ==
  IF i > MaxNote THEN [prev |-> prev, voices |-> voices]
  ELSE LET r == Bg1_Iteration(vel, prev, voices, i)
       IN Bg1_Loop(vel, r.prev, r.voices, i + 1)

Bg1_Pass ==
  /\ scope = "mix"
  /\ LET r == Bg1_Loop(midi_note_velocity, midi_note_velocity_prev, synth_voices, 0)
     IN /\ midi_note_velocity_prev' = r.prev
        /\ synth_voices' = r.voices
  /\ core_op' = "pass"
  /\ UNCHANGED <<core1Frame, bg1_pc, bg1_i, indx>>

(* ------------- SHARC core 1: processaudio_callback (mixing) ------------ *)
Samples == 1..BlockSize
\* clear_buffer(buffer, AUDIO_BLOCK_SIZE)
clear_buffer == [i \in Samples |-> 0]

\* the waveform of the oscillator, sample by sample (a triangle wave at
\* its extremes)
Wave(i) == IF i % 2 = 1 THEN 1 ELSE -1

\* synth_read(&voice, temp_audio, AUDIO_BLOCK_SIZE): the block a voice
\* generates, in units of 1/128; a voice that is not playing is silent
synth_read(v) ==
  [i \in Samples |-> IF v.playing THEN v.amplitude * Wave(i) ELSE 0]

\* mix_2x1(a, b, out, AUDIO_BLOCK_SIZE): out = a + b
mix_2x1(a, b) == [i \in Samples |-> a[i] + b[i]]

\* gain_buffer(buffer, gain, AUDIO_BLOCK_SIZE): buffer scaled in place
gain_buffer(buffer) == [i \in Samples |-> (buffer[i] * GAIN_NUM) \div GAIN_DEN]

\* lines 237-242: the loop over the 16 voices, from voice k on
RECURSIVE MixVoices(_, _, _)
MixVoices(voices, k, accum) ==
  IF k >= NumVoices THEN accum
  ELSE MixVoices(voices, k + 1, mix_2x1(synth_read(voices[k]), accum))

\* what the output buffers can hold when the framework calls the callback
\* (the block the framework left there), in units of 1/128: a block of
\* silence or a block of one constant sample
BufferSamples == {0, GAIN_DEN}
BufferBlocks == {[i \in Samples |-> x] : x \in BufferSamples}

\* lines 230-247; left and right are the output buffers on entry
Callback1_Result(voices, left, right) ==
  [accum |-> MixVoices(voices, 0, clear_buffer),
   left |-> gain_buffer(left),
   right |-> gain_buffer(right)]

\* a callback that itself stops the voices whose note the decoder has
\* released
Callback1_FreesVoices ==
  /\ scope = "mix"
  /\ \E left, right \in BufferBlocks :
       LET r == Callback1_Result(synth_voices, left, right)
       IN /\ temp_audio_accum' = r.accum
          /\ audiochannel_0_left_out' = r.left
          /\ audiochannel_0_right_out' = r.right
  /\ synth_voices' = [k \in Voices |->
                        IF midi_note_velocity[synth_voices[k].note] = 0
                        THEN synth_stop_note(synth_voices[k])
                        ELSE synth_voices[k]]
  /\ core_op' = "callback"
  /\ UNCHANGED <<scope, decoder, part000Vars, core0Vars, bridgeVars, bg1_pc,
                 bg1_i, indx, core2Vars, cb2Vars, fed, sent>>

Callback1 ==
  /\ scope = "mix"
  /\ \E left, right \in BufferBlocks :
       LET r == Callback1_Result(synth_voices, left, right)
       IN /\ temp_audio_accum' = r.accum
          /\ audiochannel_0_left_out' = r.left
          /\ audiochannel_0_right_out' = r.right
  /\ core_op' = "callback"
  /\ UNCHANGED <<scope, decoder, part000Vars, core0Vars, bridgeVars, core1Vars,
                 core2Vars, cb2Vars, fed, sent>>

(* ----------- SHARC core 2: delay and filter parameter entry ------------ *)
\* the delay line's capacity: delay_buffer[AUDIO_SAMPLE_RATE*2]
DelayCapacity == AUDIO_SAMPLE_RATE * 2

\* audio_delay after delay_setup (lines 142-148): feedback 0.6 in units of
\* 1/1280, length AUDIO_SAMPLE_RATE*0.25 in samples
SetupDelay == [feedback |-> 768, length |-> AUDIO_SAMPLE_RATE \div 4]
\* lp_filter after filter_setup (lines 125-132): 3000.0 Hz in units of 1/128 Hz
SetupFilter == [freq |-> 3000 * 128]

\* a length that is not scaled down by the controller range
LengthOf_Unscaled(v) == AUDIO_SAMPLE_RATE * v

\* 0.9 * (val / 128.f), in units of 1/1280
FeedbackOf(v) == 9 * v
\* (uint32_t)((float)AUDIO_SAMPLE_RATE * (val / 128.f))
LengthOf(v) == (AUDIO_SAMPLE_RATE * v) \div 128
\* a frequency without the 100 Hz offset
FreqOf_NoOffset(v) == 3000 * v

\* (3000.f * (val / 128.f)) + 100.f, in units of 1/128 Hz
FreqOf(v) == 3000 * v + 100 * 128

\* delay_modify_feedback(&audio_delay, feedback)
delay_modify_feedback(d, feedback) == [d EXCEPT !.feedback = feedback]
\* delay_modify_length(&audio_delay, length): clamped to [1, capacity]
delay_modify_length(d, length) ==
  [d EXCEPT !.length = IF length < 1 THEN 1
                       ELSE IF length > DelayCapacity THEN DelayCapacity
                       ELSE length]
\* filter_modify_freq(&lp_filter, freq)
filter_modify_freq(f, freq) == [f EXCEPT !.freq = freq]

(* -------------- SHARC core 2: processaudio_background_loop -------------- *)
\* the slot polled after slot c; after CC_FREQ the pass returns and the
\* framework calls it again
NextSlot(c) == IF c = CC_FREQ THEN CC_FEEDBACK ELSE c + 1

core2Frame == <<scope, decoder, part000Vars, core0Vars, midi_note_velocity,
                midi_note_velocity_prev, midi_note_velocities, midi_cc_values,
                core1Vars, audioVars, cb2Vars, fed, sent>>

\* lines 204, 210, 216: val = multicore_data->midi_cc_values[slot]
Bg2_Read ==
  /\ scope = "fx" /\ bg2_pc = "read"
  /\ val' = midi_cc_values[bg2_slot]
  /\ bg2_pc' = "apply"
  /\ core_op' = "read"
  /\ UNCHANGED <<core2Frame, midi_cc_values_prev, audio_delay, lp_filter, bg2_slot>>

\* the entry point a change of slot c is forwarded to, with its argument
Forward(c, v, d, f) ==
  CASE c = CC_FEEDBACK -> [delay |-> delay_modify_feedback(d, FeedbackOf(v)), filter |-> f]
    [] c = CC_LENGTH -> [delay |-> delay_modify_length(d, LengthOf(v)), filter |-> f]
    [] c = CC_FREQ -> [delay |-> d, filter |-> filter_modify_freq(f, FreqOf(v))]

\* a poll of one slot that forwards the value whether it has changed or not
Bg2_Apply_Always ==
  /\ scope = "fx" /\ bg2_pc = "apply"
  /\ midi_cc_values_prev' = [midi_cc_values_prev EXCEPT ![bg2_slot] = val]
  /\ LET r == Forward(bg2_slot, val, audio_delay, lp_filter)
     IN audio_delay' = r.delay /\ lp_filter' = r.filter
  /\ core_op' = IF midi_cc_values_prev[bg2_slot] # val THEN "forward" ELSE "skip"
  /\ bg2_slot' = NextSlot(bg2_slot)
  /\ bg2_pc' = "read"
  /\ UNCHANGED <<core2Frame, val>>

\* lines 205-209, 211-215, 217-221: the if statement on the value read
Bg2_Apply ==
  /\ scope = "fx" /\ bg2_pc = "apply"
  /\ IF midi_cc_values_prev[bg2_slot] # val
     THEN /\ midi_cc_values_prev' = [midi_cc_values_prev EXCEPT ![bg2_slot] = val]
          /\ LET r == Forward(bg2_slot, val, audio_delay, lp_filter)
             IN audio_delay' = r.delay /\ lp_filter' = r.filter
          /\ core_op' = "forward"
     ELSE /\ UNCHANGED <<midi_cc_values_prev, audio_delay, lp_filter>>
          /\ core_op' = "skip"
  /\ bg2_slot' = NextSlot(bg2_slot)
  /\ bg2_pc' = "read"
  /\ UNCHANGED <<core2Frame, val>>

(* --------- SHARC core 2: processaudio_callback (filter + delay) -------- *)
\* the input channel the callback filters and delays
FilteredChannel == "0_left"
\* the channel pairs the callback passes through
PassChannels == {"1_left", "1_right", "2_left", "2_right", "3_left", "3_right"}
InChannels == {FilteredChannel} \cup PassChannels

ChannelNo(c) ==
  CASE c = "0_left" -> 0
    [] c = "1_left" -> 1 [] c = "1_right" -> 2
    [] c = "2_left" -> 3 [] c = "2_right" -> 4
    [] c = "3_left" -> 5 [] c = "3_right" -> 6

\* the blocks the framework delivers for one callback: every channel carries
\* samples of its own, so that a block copied to another channel shows
InputLevels == 0..MaxLevel
InputFrame(x) ==
  [c \in InChannels |->
     [i \in Samples |-> 10 * (Cardinality(InChannels) * x + ChannelNo(c)) + i]]

\* filter_read(&lp_filter, in, out, n): the low-pass is kept as a two-tap
\* average over a silent history
filter_read(f, in) ==
  [i \in Samples |-> (in[i] + (IF i = 1 THEN 0 ELSE in[i - 1])) \div 2]

\* delay_read(&audio_delay, in, out, n) while the delay line still holds
\* silence: feedthrough * input
delay_read(d, in) ==
  [i \in Samples |-> (in[i] * FEEDTHROUGH_NUM) \div FEEDTHROUGH_DEN]

\* the callback runs at a higher priority than the background loop of its
\* core: while it runs, the loop does not
Preempted == cb2_pc # "idle"

\* lines 173-178: the framework has delivered a block; the scratch buffers
\* are cleared
Callback2_Enter ==
  /\ scope = "fx" /\ cb2_pc = "idle"
  /\ \E x \in InputLevels : audiochannel_in' = InputFrame(x)
  /\ audio_temp' = clear_buffer
  /\ audio_temp2' = clear_buffer
  /\ cb2_pc' = "run"
  /\ core_op' = "callback_enter"
  /\ UNCHANGED <<scope, decoder, part000Vars, core0Vars, bridgeVars, core1Vars,
                 audioVars, core2Vars, audiochannel_out, fed, sent>>

\* a callback that sends the unprocessed input to the right output
Callback2_Result_DryRight(f, d, in) ==
  LET filtered == filter_read(f, in[FilteredChannel])
      delayed == delay_read(d, filtered)
  IN [temp |-> filtered, temp2 |-> delayed, left |-> delayed,
      right |-> in[FilteredChannel],
      pass |-> [c \in PassChannels |-> in[c]]]

\* lines 181-196: what the callback leaves in its scratch and output buffers
Callback2_Result(f, d, in) ==
  LET filtered == filter_read(f, in[FilteredChannel])
      delayed == delay_read(d, filtered)
  IN [temp |-> filtered, temp2 |-> delayed, left |-> delayed, right |-> delayed,
      pass |-> [c \in PassChannels |-> in[c]]]

\* a callback that applies the filter controller itself, in mid-block
Callback2_Run_Retunes ==
  /\ scope = "fx" /\ cb2_pc = "run"
  /\ LET r == Callback2_Result(lp_filter, audio_delay, audiochannel_in)
     IN /\ audio_temp' = r.temp
        /\ audio_temp2' = r.temp2
        /\ audiochannel_0_left_out' = r.left
        /\ audiochannel_0_right_out' = r.right
        /\ audiochannel_out' = r.pass
  /\ lp_filter' = filter_modify_freq(lp_filter, FreqOf(midi_cc_values[CC_FREQ]))
  /\ cb2_pc' = "idle"
  /\ core_op' = "callback"
  /\ UNCHANGED <<scope, decoder, part000Vars, core0Vars, bridgeVars, core1Vars,
                 temp_audio_accum, audio_delay, bg2_pc, bg2_slot, val,
                 audiochannel_in, fed, sent>>

\* lines 181-197
Callback2_Run ==
  /\ scope = "fx" /\ cb2_pc = "run"
  /\ LET r == Callback2_Result(lp_filter, audio_delay, audiochannel_in)
     IN /\ audio_temp' = r.temp
        /\ audio_temp2' = r.temp2
        /\ audiochannel_0_left_out' = r.left
        /\ audiochannel_0_right_out' = r.right
        /\ audiochannel_out' = r.pass
  /\ cb2_pc' = "idle"
  /\ core_op' = "callback"
  /\ UNCHANGED <<scope, decoder, part000Vars, core0Vars, bridgeVars, core1Vars,
                 temp_audio_accum, core2Vars, audiochannel_in, fed, sent>>

(* ---------------------------- specification ---------------------------- *)
\* everything but the controller slots and the elements they drive
InitRest ==
  /\ midi_status = 0 /\ midi_channel = 0 /\ midi_note_num = 0 /\ midi_byte_num = 0
  /\ status = 0 /\ channel = 0 /\ note_num = 0 /\ command_num = 0
  /\ midi_note_velocity = [n \in Notes |-> 0]
  /\ midi_note_velocity_prev = [n \in Notes |-> 0]
  /\ midi_note_velocities = [n \in Notes |-> 0]
  /\ synth_voices = [k \in Voices |-> SetupVoice]
  /\ bg1_pc = "cmp" /\ bg1_i = 0 /\ indx = 0
  /\ audiochannel_0_left_out = clear_buffer
  /\ audiochannel_0_right_out = clear_buffer
  /\ temp_audio_accum = clear_buffer
  /\ bg2_pc = "read" /\ bg2_slot = CC_FEEDBACK /\ val = 0
  /\ cb2_pc = "idle"
  /\ audiochannel_in = [c \in InChannels |-> clear_buffer]
  /\ audiochannel_out = [c \in PassChannels |-> clear_buffer]
  /\ audio_temp = clear_buffer /\ audio_temp2 = clear_buffer
  /\ core_op = "setup"
  /\ fed = <<>> /\ sent = <<>>
  /\ pending = [s \in PolledSlots |-> 0]
  /\ polled = 0 /\ fresh = FALSE

\* the controller slots and the delay and filter after processaudio_setup
InitControllers ==
  /\ midi_cc_values = [c \in CCSlots |-> 0]
  /\ midi_cc_values_prev = [c \in CCSlots |-> 0]
  /\ audio_delay = SetupDelay
  /\ lp_filter = SetupFilter

InitCommon == InitRest /\ InitControllers

\* the ARM core alone, fed byte by byte
InitDecoder == scope = "decoder" /\ decoder \in {"part_000", "core0"} /\ InitCommon

NextDecoder ==
  \/ Part000_RxByte /\ UNCHANGED <<pending, polled, fresh>>
  \/ Core0_RxByte /\ UNCHANGED <<pending, polled, fresh>>
  \/ Core0_Return /\ UNCHANGED <<pending, polled, fresh>>

SpecDecoder == InitDecoder /\ [][NextDecoder]_vars

\* the ARM core (part_000) alone, fed byte by byte without a limit on the
\* data bytes that follow a status byte
InitStream == scope = "stream" /\ decoder = "part_000" /\ InitCommon

NextStream == Part000_RxStream /\ UNCHANGED <<pending, polled, fresh>>

SpecStream == InitStream /\ [][NextStream]_vars

\* the ARM core (part_000, the build that writes midi_note[.].velocity) and
\* the background pass of SHARC core 1
InitSynth == scope = "synth" /\ decoder = "part_000" /\ InitCommon

NextSynth ==
  \/ Part000_RxMessage /\ UNCHANGED <<pending, polled, fresh>>
  \/ Bg1_Compare /\ UNCHANGED <<pending, polled, fresh>>
  \/ Bg1_Store /\ UNCHANGED <<pending, polled, fresh>>
  \/ Bg1_NoteOff /\ UNCHANGED <<pending, polled, fresh>>
  \/ Bg1_Branch /\ UNCHANGED <<pending, polled, fresh>>
  \/ Bg1_NoteOn /\ UNCHANGED <<pending, polled, fresh>>

SpecSynth == InitSynth /\ [][NextSynth]_vars

\* the ARM core (part_000) and SHARC core 1: whole background passes and
\* the block callback
InitMix == scope = "mix" /\ decoder = "part_000" /\ InitCommon

NextMix ==
  \/ Part000_RxMessage /\ UNCHANGED <<pending, polled, fresh>>
  \/ Bg1_Pass /\ UNCHANGED <<pending, polled, fresh>>
  \/ Callback1 /\ UNCHANGED <<pending, polled, fresh>>

SpecMix == InitMix /\ [][NextMix]_vars

\* the ARM core (either build) and the background pass of SHARC core 2
InitFx == scope = "fx" /\ decoder \in {"part_000", "core0"} /\ InitCommon

NextFx ==
  \/ Part000_RxMessage /\ UNCHANGED <<pending, polled, fresh>>
  \/ Core0_RxMessage /\ UNCHANGED <<pending, polled, fresh>>
  \/ Bg2_Read /\ UNCHANGED <<pending, polled, fresh>>
  \/ Bg2_Apply /\ UNCHANGED <<pending, polled, fresh>>

SpecFx == InitFx /\ [][NextFx]_vars

\* SHARC core 2 with its block callback: the decoder (the Synth_core0 build,
\* which writes every polled controller slot), the background loop and the
\* callback that preempts it
InitFxAudio == scope = "fx" /\ decoder = "core0" /\ InitCommon

NextFxAudio ==
  \/ Core0_RxMessage /\ UNCHANGED <<pending, polled, fresh>>
  \/ ~Preempted /\ Bg2_Read /\ UNCHANGED <<pending, polled, fresh>>
  \/ ~Preempted /\ Bg2_Apply /\ UNCHANGED <<pending, polled, fresh>>
  \/ Callback2_Enter /\ UNCHANGED <<pending, polled, fresh>>
  \/ Callback2_Run /\ UNCHANGED <<pending, polled, fresh>>

SpecFxAudio == InitFxAudio /\ [][NextFxAudio]_vars

\* The scaling of the controller values, over every value a data byte can
\* carry.  The background pass of core 2 starts where the decoder has just
\* written v to one polled slot c whose previous value is p: either nothing
\* was forwarded for c yet (p = 0, the elements as set up) or the greatest
\* value was forwarded last.
DataByteValues == 0..(STATUS_BIT - 1)
MaxDataByte == STATUS_BIT - 1

InitRange ==
  /\ scope = "fx" /\ decoder = "core0"
  /\ InitRest
  /\ \E c \in PolledCC, v \in DataByteValues, p \in {0, MaxDataByte} :
       LET r == IF p = 0 THEN [delay |-> SetupDelay, filter |-> SetupFilter]
                ELSE Forward(c, p, SetupDelay, SetupFilter)
       IN /\ midi_cc_values = [s \in CCSlots |-> IF s = c THEN v ELSE 0]
          /\ midi_cc_values_prev = [s \in CCSlots |-> IF s = c THEN p ELSE 0]
          /\ audio_delay = r.delay
          /\ lp_filter = r.filter

NextRange ==
  \/ Bg2_Read /\ UNCHANGED <<pending, polled, fresh>>
  \/ Bg2_Apply /\ UNCHANGED <<pending, polled, fresh>>

SpecRange == InitRange /\ [][NextRange]_vars

\* every actor of the program: the decoder, the background pass and the block
\* callback, on SHARC core 1 or on SHARC core 2
InitOwners == InitMix \/ InitFxAudio
NextOwners == NextMix \/ NextFxAudio
SpecOwners == InitOwners /\ [][NextOwners]_vars

\* The background passes of both SHARC cores (a behaviour follows one core),
\* with the changes of every polled slot counted: the decoder's writes that
\* change a slot against the changes the pass forwards.
InitPoll == InitSynth \/ InitFx

\* every polled slot the step changes counts one change more; the decoder
\* stays at most MaxPending changes ahead of the pass
PollCount ==
  /\ pending' = [s \in PolledSlots |->
                   IF PolledValue(s)' # PolledValue(s) THEN pending[s] + 1
                   ELSE pending[s]]
  /\ \A s \in PolledSlots : pending'[s] <= MaxPending
  /\ UNCHANGED <<polled, fresh>>

\* a decoder invocation
PollRx ==
  \/ Part000_RxMessage /\ PollCount
  \/ Core0_RxMessage /\ PollCount

\* a step of a pass that forwards nothing
PollQuiet ==
  \/ Bg1_Compare /\ UNCHANGED <<pending, polled, fresh>>
  \/ Bg1_Store /\ UNCHANGED <<pending, polled, fresh>>
  \/ Bg1_Branch /\ UNCHANGED <<pending, polled, fresh>>
  \/ Bg2_Read /\ UNCHANGED <<pending, polled, fresh>>
  \/ Bg2_Apply /\ midi_cc_values_prev[bg2_slot] = val /\ UNCHANGED <<pending, polled, fresh>>

\* a step of a pass that forwards the change of a slot: core 1 enters the
\* voice bank, core 2 calls a modify entry point
PollForward ==
  \/ /\ Bg1_NoteOff /\ pending' = [pending EXCEPT ![bg1_i] = @ - 1]
     /\ UNCHANGED <<polled, fresh>>
  \/ /\ Bg1_NoteOn /\ pending' = [pending EXCEPT ![bg1_i] = @ - 1]
     /\ UNCHANGED <<polled, fresh>>
  \/ /\ Bg2_Apply /\ midi_cc_values_prev[bg2_slot] # val
     /\ pending' = [pending EXCEPT ![bg2_slot] = @ - 1]
     /\ UNCHANGED <<polled, fresh>>

NextPoll == PollRx \/ PollQuiet \/ PollForward

SpecPoll == InitPoll /\ [][NextPoll]_vars

\* The background passes of both SHARC cores with the decoder on another
\* core, and the pass iterations counted that ran undisturbed by it.
InitSettle == InitSynth \/ InitFx

\* the iterations of one pass: 128 notes on core 1 (lines 284-314), three
\* controller slots on core 2 (lines 204-221)
PassLength == IF scope = "synth" THEN MaxNote + 1 ELSE Cardinality(PolledCC)
\* the slots the pass of this core polls
ScopeSlots == IF scope = "synth" THEN Notes ELSE PolledCC

\* an invocation of the decoder
SettleWrite == polled' = 0 /\ fresh' = FALSE
\* an iteration begins
SettleBegin == fresh' = TRUE /\ UNCHANGED polled
\* an iteration ends
SettleEnd ==
  /\ polled' = IF fresh THEN Min(polled + 1, PassLength) ELSE polled
  /\ fresh' = FALSE
\* an iteration that begins and ends in one step
SettleWhole == polled' = Min(polled + 1, PassLength) /\ fresh' = FALSE

NextSettle ==
  \/ Part000_RxMessage /\ SettleWrite /\ UNCHANGED pending
  \/ Core0_RxMessage /\ SettleWrite /\ UNCHANGED pending
  \/ /\ Bg1_Compare /\ UNCHANGED pending
     /\ IF bg1_pc' = "store" THEN SettleBegin ELSE SettleWhole
  \/ Bg1_Store /\ UNCHANGED <<pending, polled, fresh>>
  \/ Bg1_NoteOff /\ SettleEnd /\ UNCHANGED pending
  \/ Bg1_Branch /\ UNCHANGED <<pending, polled, fresh>>
  \/ Bg1_NoteOn /\ SettleEnd /\ UNCHANGED pending
  \/ Bg2_Read /\ SettleBegin /\ UNCHANGED pending
  \/ Bg2_Apply /\ SettleEnd /\ UNCHANGED pending

SpecSettle == InitSettle /\ [][NextSettle]_vars

(* ======================= the voice bank (core 1) ====================== *)
\* C1: the note-off scan of the background pass for note bg1_i stops every
\* voice that is playing and assigned to that note, not only the
\* lowest-indexed one.
C1_NoteOffStopsEveryMatch ==
  [][Bg1_NoteOff =>
       \A k \in Sounding(synth_voices, bg1_i) : ~synth_voices'[k].playing]_vars

\* C2: in every reachable state at most one voice is playing with a given
\* assigned note number.
C2_OneVoicePerNote ==
  \A n \in Notes : Cardinality(Sounding(synth_voices, n)) <= 1

\* C3: the note-on scan starts the note on exactly one voice, the
\* lowest-indexed voice that is not playing; so while the playing voices are
\* exactly the first m of the bank, the next started note goes to voice m.
C3_NoteOnLowestFree ==
  [][Bg1_NoteOn =>
       LET free == FreeVoices(synth_voices)
       IN /\ free # {} =>
               /\ synth_voices'[Lowest(free)].playing
               /\ synth_voices'[Lowest(free)].note = bg1_i
               /\ \A k \in Voices \ {Lowest(free)} :
                    synth_voices'[k] = synth_voices[k]
          /\ \A m \in Voices :
               (\A k \in Voices : synth_voices[k].playing <=> k < m) =>
                  /\ \A k \in Voices : synth_voices'[k].playing <=> k < m + 1
                  /\ synth_voices'[m].note = bg1_i]_vars

\* a note-on has just filled the last free voice of the bank
C3_Witness ==
  /\ core_op = "note_on"
  /\ \A k \in Voices : synth_voices[k].playing
  /\ indx = NumVoices

\* C4: with every voice playing, a note-on is dropped: no voice's playing
\* flag, note or amplitude changes, the scan reads no voice index beyond the
\* bank (it exits with indx equal to the bank's size), and no voice starts
\* the dropped note.
C4_FullBankDrops ==
  [][(Bg1_NoteOn /\ FreeVoices(synth_voices) = {}) =>
       /\ synth_voices' = synth_voices
       /\ indx' = NumVoices
       /\ Sounding(synth_voices', bg1_i) = Sounding(synth_voices, bg1_i)]_vars

\* a note-on has just been dropped, and no voice sounds the dropped note
C4_Witness ==
  /\ core_op = "note_on_dropped"
  /\ \A k \in Voices : synth_voices[k].playing
  /\ \E n \in Notes : Sounding(synth_voices, n) = {} /\ midi_note_velocity_prev[n] # 0

\* C5: the note-off scan for note bg1_i leaves every voice that is not playing
\* or is assigned to another note unchanged; with no playing voice assigned
\* to the note the whole bank is unchanged.
C5_NoteOffFrame ==
  [][Bg1_NoteOff =>
       /\ \A k \in Voices \ Sounding(synth_voices, bg1_i) :
            synth_voices'[k] = synth_voices[k]
       /\ Sounding(synth_voices, bg1_i) = {} => synth_voices' = synth_voices]_vars

\* a note-off has just been processed while a voice assigned to another note
\* keeps playing
C5_Witness ==
  /\ core_op = "note_off"
  /\ \E k \in Voices : synth_voices[k].playing

(* ========================== the MIDI decoder =========================== *)
\* the note velocities the decoder build publishes in the bridge
BridgeVelocity ==
  IF decoder = "part_000" THEN midi_note_velocity ELSE midi_note_velocities

\* C6: once the bytes [0x90|ch, n, v] have been fed (from any decoder state)
\* the bridge holds velocity v for note n; once [0x80|ch, n, 0] have been fed
\* it holds 0 for note n; and no byte of a note-on or note-off message
\* changes the velocity of a note other than the one the message names.
C6_NoteOnThenOff ==
  /\ [](\A ch \in 0..MaxChannel, n \in Notes :
          /\ \A v \in Velocities :
               fed = <<NOTE_ON + ch, n, v>> => BridgeVelocity[n] = v
          /\ fed = <<NOTE_OFF + ch, n, 0>> => BridgeVelocity[n] = 0)
  /\ [][(fed' # <<>> /\ HighNibble(fed'[1]) \in {NOTE_ON, NOTE_OFF}) =>
          \A m \in Notes :
            (Len(fed') = 1 \/ m # fed'[2]) =>
               BridgeVelocity'[m] = BridgeVelocity[m]]_vars

\* a note-off message has just zeroed its note while another note keeps the
\* velocity a note-on gave it
C6_Witness ==
  \E ch \in 0..MaxChannel, n \in Notes, m \in Notes :
    /\ fed = <<NOTE_OFF + ch, n, 0>>
    /\ BridgeVelocity[n] = 0
    /\ m # n /\ BridgeVelocity[m] = MaxVel

\* C7: once a control-change message [0xB0|ch, c, v] has been fed, the
\* bridge's controller slot c holds v, whatever the channel ch.
C7_CCSetsControllerSlot ==
  \A ch \in 0..15, c \in CCSlots, v \in CCValues :
    fed = <<CONTROL_CHANGE + ch, c, v>> => midi_cc_values[c] = v

(* ============================== the poll =============================== *)
\* the background pass is between two polls: no iteration has compared or
\* read a value it has not yet acted on
BetweenPolls == bg1_pc = "cmp" /\ bg2_pc = "read"

\* C8 (as stated): every change the decoder makes to a polled slot is
\* forwarded exactly once, so whenever the pass is between two polls and a
\* slot's previous value equals its current value, no change of that slot
\* is left unforwarded.
C8_ExactlyOnce ==
  \A s \in PolledSlots :
    (BetweenPolls /\ PolledValue(s) = PolledPrev(s)) => pending[s] = 0

\* C8 (amended): the poll is change-only and coalescing.  The pass never
\* forwards a slot more often than the decoder has changed it, and whenever
\* a slot's current value differs from its previous value at least one
\* change of that slot is still to be forwarded; changes the decoder has
\* overwritten before the pass polls the slot are not forwarded one by one.
C8_ChangeOnlyCoalescing ==
  \A s \in PolledSlots :
    /\ pending[s] >= 0
    /\ PolledValue(s) # PolledPrev(s) => pending[s] >= 1

\* the pass has just forwarded a slot the decoder had changed twice: one
\* forward has brought previous to current, one change stays unforwarded
C8_Witness ==
  /\ core_op \in {"note_on", "forward"}
  /\ BetweenPolls
  /\ \E s \in PolledSlots : PolledValue(s) = PolledPrev(s) /\ pending[s] = 1

\* no polled value has changed since the pass last polled it
NothingChanged ==
  /\ \A s \in PolledSlots : PolledValue(s) = PolledPrev(s)
  /\ bg1_pc = "cmp"
  /\ bg2_pc = "apply" => val = midi_cc_values[bg2_slot]

\* a step of a background pass, on either SHARC core
PassStep ==
  \/ Bg1_Compare \/ Bg1_Store \/ Bg1_NoteOff \/ Bg1_Branch \/ Bg1_NoteOn
  \/ Bg2_Read \/ Bg2_Apply

\* C9: while no polled value has changed, a step of the background pass
\* changes no voice, neither the delay nor the filter, and no previous-value
\* field of the bridge, and the next step of the pass finds the same.
C9_IdlePassMutatesNothing ==
  [][(NothingChanged /\ PassStep) =>
       /\ UNCHANGED <<synth_voices, audio_delay, lp_filter,
                      midi_note_velocity_prev, midi_cc_values_prev>>
       /\ NothingChanged']_vars

\* the pass has skipped a slot, nothing being changed, after earlier changes
\* had been forwarded to a voice or to the delay
C9_Witness ==
  /\ core_op = "skip"
  /\ NothingChanged
  /\ \/ \E k \in Voices : synth_voices[k].playing
     \/ audio_delay # SetupDelay

(* ============================ the mixing =============================== *)
\* C10: after the block callback both output buffers hold 0.25 times the
\* accumulated mix of the voices, sample by sample.
C10_OutputIsScaledMix ==
  core_op = "callback" =>
    \A i \in Samples :
      /\ GAIN_DEN * audiochannel_0_left_out[i] = GAIN_NUM * temp_audio_accum[i]
      /\ GAIN_DEN * audiochannel_0_right_out[i] = GAIN_NUM * temp_audio_accum[i]

(* ======================= the filter + delay chain ====================== *)
\* C11: from the start to the end of one invocation of the block callback of
\* core 2 the parameters it reads (delay feedback, delay length, filter
\* frequency) do not change, although the callback preempts the background
\* pass at any point: a change is applied between two callbacks only.
C11_ParamsStableInCallback ==
  [][(cb2_pc # "idle" \/ cb2_pc' # "idle") =>
       UNCHANGED <<audio_delay, lp_filter>>]_vars

\* the callback runs while the background pass it has preempted holds a
\* changed controller value it has read and not yet applied
C11_Witness ==
  /\ cb2_pc = "run"
  /\ bg2_pc = "apply"
  /\ midi_cc_values_prev[bg2_slot] # val

\* the background pass forwards the value it has read for slot c
Forwards(c) ==
  Bg2_Apply /\ bg2_slot = c /\ midi_cc_values_prev[c] # val

\* C12: the delay length never exceeds the capacity of the delay buffer
\* (2 * AUDIO_SAMPLE_RATE): not the length given at setup, not a length the
\* background pass hands to delay_modify_length for any value of CC 5, and
\* not the length in effect afterwards.
C12_LengthWithinCapacity ==
  /\ [](SetupDelay.length <= DelayCapacity /\ audio_delay.length <= DelayCapacity)
  /\ [][Forwards(CC_LENGTH) => LengthOf(val) <= DelayCapacity]_vars

\* the greatest value of CC 5 has been forwarded and its length is in effect
C12_Witness ==
  /\ core_op = "forward"
  /\ midi_cc_values_prev[CC_LENGTH] = MaxDataByte
  /\ audio_delay.length = LengthOf(MaxDataByte)

\* C13: every length the background pass hands to delay_modify_length, for
\* any value of CC 5, is at least 1 and at most the capacity.
C13_PublishedLengthInRange ==
  [][Forwards(CC_LENGTH) =>
       (1 <= LengthOf(val) /\ LengthOf(val) <= DelayCapacity)]_vars

\* C20: for every controller value a data byte can carry, the background
\* pass forwards for slot 4 a feedback within [0, 0.9], for slot 5 a length
\* within [0, AUDIO_SAMPLE_RATE] and for slot 6 a frequency within
\* [100, 3100] Hz; the forward puts that value into the slot's own parameter
\* and leaves the two other parameters as they were.  (Feedback is in units
\* of 1/1280, frequency in units of 1/128 Hz.)
C20_ScaledIntoRange ==
  [][/\ Forwards(CC_FEEDBACK) =>
          /\ 0 <= FeedbackOf(val) /\ FeedbackOf(val) <= 9 * 128
          /\ audio_delay'.feedback = FeedbackOf(val)
          /\ audio_delay'.length = audio_delay.length
          /\ lp_filter' = lp_filter
     /\ Forwards(CC_LENGTH) =>
          /\ 0 <= LengthOf(val) /\ LengthOf(val) <= AUDIO_SAMPLE_RATE
          /\ audio_delay'.feedback = audio_delay.feedback
          /\ lp_filter' = lp_filter
     /\ Forwards(CC_FREQ) =>
          /\ 100 * 128 <= FreqOf(val) /\ FreqOf(val) <= 3100 * 128
          /\ lp_filter'.freq = FreqOf(val)
          /\ audio_delay' = audio_delay]_vars

\* the least value of CC 6 has been forwarded after the greatest: the filter
\* is at the lower end of its range
C20_Witness ==
  /\ core_op = "forward"
  /\ midi_cc_values_prev[CC_FREQ] = 0
  /\ lp_filter.freq = FreqOf(0)
  /\ lp_filter # SetupFilter

(* ============================ write ownership ========================== *)
\* what only the background pass may write: the parameters of the voices,
\* the delay and the filter, and the previous-value fields of the bridge
PassOwned == <<synth_voices, audio_delay, lp_filter,
               midi_note_velocity_prev, midi_cc_values_prev>>
\* what only the decoder may write: the current-value fields of the bridge
DecoderOwned == <<midi_note_velocity, midi_note_velocities, midi_cc_values>>

\* C14: a step that changes a voice, the delay, the filter or a
\* previous-value field of the bridge is a step of a background pass; a step
\* that changes a current-value field of the bridge is a step of the
\* decoder.  So the decoder writes current values only, and the block
\* callbacks write neither bridge fields nor element parameters.
C14_WriteOwnership ==
  [][/\ PassOwned' # PassOwned => (Bg1_Pass \/ Bg2_Apply)
     /\ DecoderOwned' # DecoderOwned => (Part000_RxMessage \/ Core0_RxMessage)]_vars

\* the block callback of core 1 has run after the decoder has written a
\* note-on and a pass has started it on a voice
C14_Witness ==
  /\ core_op = "callback"
  /\ \E n \in Notes :
       /\ midi_note_velocity[n] # 0
       /\ midi_note_velocity_prev[n] = midi_note_velocity[n]
       /\ Sounding(synth_voices, n) # {}

(* ======================= the filter + delay callback =================== *)
\* C15: after the block callback of core 2 both channel-0 outputs hold the
\* delay output of the filtered channel-0 left input, sample for sample, and
\* every output of the channel pairs 1, 2, 3 holds its own input.
C15_FilterDelayAndPassThrough ==
  (scope = "fx" /\ core_op = "callback") =>
    LET wet == delay_read(audio_delay,
                          filter_read(lp_filter, audiochannel_in[FilteredChannel]))
    IN /\ audiochannel_0_left_out = wet
       /\ audiochannel_0_right_out = wet
       /\ \A c \in PassChannels : audiochannel_out[c] = audiochannel_in[c]

\* the callback has processed a block of the highest input level, every
\* channel carrying samples of its own
C15_Witness ==
  /\ scope = "fx" /\ core_op = "callback"
  /\ audiochannel_in = InputFrame(MaxLevel)
  /\ audiochannel_0_left_out # audiochannel_in[FilteredChannel]
  /\ audiochannel_out["3_right"] # clear_buffer

(* ===================== the decoder and the byte stream ================= *)
\* the step reads a status byte: only then do the bytes the current
\* invocation has read since the last status byte number exactly one
StatusStep == (Part000_RxByte \/ Core0_RxByte) /\ Len(fed') = 1
\* the step reads a data byte
DataStep == (Part000_RxByte \/ Core0_RxByte) /\ Len(fed') # 1

\* the decoder's command, channel and byte-position counter, by build
Command == IF decoder = "part_000" THEN midi_status ELSE status
Channel == IF decoder = "part_000" THEN midi_channel ELSE channel
ByteNum == IF decoder = "part_000" THEN midi_byte_num ELSE command_num

\* C16: a byte >= 0x80, read in any decoder state, stores channel = low
\* nibble and command = high nibble, sets the byte-position counter to 0 and
\* changes no bridge field.
C16_StatusByteResets ==
  [][StatusStep =>
       /\ fed'[1] >= STATUS_BIT
       /\ Channel' = LowNibble(fed'[1])
       /\ Command' = HighNibble(fed'[1])
       /\ ByteNum' = 0
       /\ UNCHANGED bridgeVars]_vars

\* a status byte has arrived after data bytes of an earlier message (the
\* stored note number is theirs) and after a note was given a velocity
C16_Witness ==
  /\ decoder = "core0" /\ Len(fed) = 1
  /\ note_num # 0 /\ command_num = 0 /\ channel = MaxChannel
  /\ \E n \in Notes : midi_note_velocities[n] = MaxVel

\* C17: the decoder state persists from one invocation of the byte-received
\* callback to the next: once the bytes [0x90|ch, n, v] have been received,
\* however they were split across invocations, the bridge holds velocity v
\* for note n.
C17_SplitIndependent ==
  \A ch \in 0..MaxChannel, n \in Notes, v \in Velocities :
    sent = <<NOTE_ON + ch, n, v>> => BridgeVelocity[n] = v

\* what a message leaves in the bridge when the decoder reads it in its
\* present state, and when it reads it in the state it has after start-up
DecodedNow(msg) ==
  IF decoder = "part_000"
  THEN LET r == Part000_DecodeAll(Part000_State, midi_note_velocity,
                                  midi_cc_values, msg)
       IN <<r.vel, r.cc>>
  ELSE LET r == Core0_DecodeAll(Core0_State, midi_note_velocities,
                                midi_cc_values, msg)
       IN <<r.vel, r.cc>>
DecodedFresh(msg) ==
  IF decoder = "part_000"
  THEN LET r == Part000_DecodeAll([midi_status |-> 0, midi_channel |-> 0,
                                   midi_note_num |-> 0, midi_byte_num |-> 0],
                                  midi_note_velocity, midi_cc_values, msg)
       IN <<r.vel, r.cc>>
  ELSE LET r == Core0_DecodeAll(Core0_Locals, midi_note_velocities,
                                midi_cc_values, msg)
       IN <<r.vel, r.cc>>
KnownCommands == {NOTE_OFF, NOTE_ON, CONTROL_CHANGE}

\* C18: a data byte read while the command is none of 0x80, 0x90, 0xB0 (a
\* stray byte before any status byte included) changes no bridge field and
\* leaves command and channel alone, the position counter moving on; and in
\* the state such bytes leave, any complete message that follows is decoded
\* as it would have been had they never arrived.
C18_UnknownDataIgnored ==
  /\ [][(DataStep /\ Command \notin KnownCommands) =>
          /\ UNCHANGED bridgeVars
          /\ Command' = Command /\ Channel' = Channel
          /\ ByteNum' = IncU8(ByteNum)]_vars
  /\ []((Command \notin KnownCommands /\ ByteNum > 0) =>
          \A msg \in NoteMessages \cup CCMessages :
            DecodedNow(msg) = DecodedFresh(msg))

\* two data bytes of a pitch-bend message have been consumed and a velocity
\* stored before them is still in the bridge
C18_Witness ==
  /\ decoder = "part_000"
  /\ midi_status = PITCH_BEND /\ midi_byte_num = 2
  /\ \E n \in Notes : midi_note_velocity[n] = MaxVel

(* ================== note-off and the previous velocity ================= *)
\* the step is an invocation of the part_000 decoder that reads the note-off
\* message for note n
NoteOffRx(n) ==
  /\ scope # "decoder" /\ decoder = "part_000"
  /\ Part000_Set(Part000_DecodeAll(Part000_State, midi_note_velocity,
                                   midi_cc_values, <<NOTE_OFF, n, 0>>))
  /\ UNCHANGED <<fed, sent, pending, polled, fresh>>

\* C19 (as stated): on a note-off message the decoder sets the note's
\* velocity and the note's previous velocity to 0.
C19_NoteOffZeroesBoth ==
  [][\A n \in Notes :
       NoteOffRx(n) =>
         midi_note_velocity'[n] = 0 /\ midi_note_velocity_prev'[n] = 0]_vars

\* C19 (amended): on a note-off message the decoder sets the note's velocity
\* to 0 and writes no previous velocity; a previous velocity changes only
\* when the background pass records the velocity it has just found to differ.
C19_NoteOffZeroesVelocityOnly ==
  /\ [][\A n \in Notes :
          NoteOffRx(n) =>
            /\ midi_note_velocity'[n] = 0
            /\ UNCHANGED midi_note_velocity_prev]_vars
  /\ [][midi_note_velocity_prev' # midi_note_velocity_prev =>
          /\ Bg1_Store
          /\ midi_note_velocity_prev'[bg1_i] = midi_note_velocity[bg1_i]]_vars

\* a note-off has zeroed the velocity of a sounding note whose previous
\* velocity is still the one the pass recorded at its note-on
C19_Witness ==
  /\ scope = "synth" /\ midi_status = NOTE_OFF /\ midi_byte_num = 2
  /\ \E n \in Notes :
       /\ midi_note_velocity[n] = 0
       /\ midi_note_velocity_prev[n] = MaxVel
       /\ Sounding(synth_voices, n) # {}

(* ===================== the byte-position counter ====================== *)
\* the step reads a data byte that is the third or a later one since the
\* last status byte (the record of the stream keeps the status byte and two
\* data bytes, and is empty after that)
LaterDataStep ==
  /\ Part000_RxStream
  /\ Len(fed) \notin {1, 2} /\ Len(fed') # 1
  /\ midi_status # 0

\* C21: after a status byte only the data bytes at positions 0 and 1 can
\* change the bridge: every later data byte leaves the bridge unchanged
\* until the next status byte, however many data bytes arrive.
C21_LaterDataBytesIgnored ==
  [][LaterDataStep => UNCHANGED bridgeVars]_vars

(* ========================== the note poll ============================= *)
\* the pass is inside its iteration for note n: between the comparison of
\* line 286 and the end of the scan it leads to
InIteration(n) == bg1_i = n /\ bg1_pc # "cmp"

\* C22: no stuck notes. Once the velocity of note n is 0, the pass has
\* recorded the 0 and has left its iteration for n, no voice is playing with
\* assigned note n, whatever note-on and note-off messages and passes came
\* before, in whatever order.
C22_NoStuckNotes ==
  \A n \in Notes :
    (/\ scope = "synth" /\ midi_status = NOTE_OFF
     /\ midi_note_velocity[n] = 0 /\ midi_note_velocity_prev[n] = 0
     /\ ~InIteration(n))
      => Sounding(synth_voices, n) = {}

\* C23: in an iteration of the pass for note bg1_i, the velocity that
\* decides between the note-off and the note-on branch (line 289) and the
\* velocity that gives the started voice its amplitude (line 307) are the
\* value the iteration recorded into velocity_prev (line 288).
C23_SnapshotConsistent ==
  [][(Bg1_NoteOff \/ Bg1_Branch \/ Bg1_NoteOn) =>
       midi_note_velocity[bg1_i] = midi_note_velocity_prev[bg1_i]]_vars

(* ====================== convergence of the poll ======================= *)
\* C24: once a pass's worth of consecutive iterations has begun and ended
\* since the decoder last ran (one further complete pass at the latest),
\* every slot the pass polls has previous = current; what the decoder wrote
\* before, and where in a pass its writes landed, makes no difference.
C24_PollConverges ==
  polled = PassLength =>
    \A s \in ScopeSlots : PolledPrev(s) = PolledValue(s)

\* a pass has run undisturbed after a note-on whose velocity the decoder
\* overwrote with 0 while the pass was between line 289 and line 307 (the
\* started voice has amplitude 0), and after a velocity was recorded
C24_Witness ==
  /\ scope = "synth" /\ polled = PassLength
  /\ \E k \in Voices : synth_voices[k].playing /\ synth_voices[k].amplitude = 0
  /\ \E n \in Notes : midi_note_velocity_prev[n] = MaxVel

=============================================================================
